---- MODULE Spec2Model ----
(***************************************************************************)
(* Snapshot store and analytics of the Pendle market tracker.              *)
(*                                                                         *)
(* db.py owns the table market_snapshots; poller.py appends to it through  *)
(* save_snapshot; server.py (HTTP, SQLAlchemy) and mcp_server.py (MCP, raw *)
(* sqlite3) and ai_insights.py read it.  Time is counted in whole hours    *)
(* since midnight UTC of day 0; two appends at the same clock reading      *)
(* model two rows that received the same utcnow() value.                   *)
(***************************************************************************)
EXTENDS Integers, Sequences, FiniteSets, TLC

VARIABLES store, now, tz, resp

vars == <<store, now, tz, resp>>

(***************************************************************************)
(* Bounds of the model.                                                    *)
(***************************************************************************)
MaxSnapshots == 3
NumMarkets == 2
MaxNow == 24
TickStep == 12
MaxLimit == 2
MaxSeries == 3
MaxIds == 2

(***************************************************************************)
(* Values.                                                                 *)
(***************************************************************************)
\* SQL NULL / Python None in a nullable Float column.
NULL == -1

HoursPerDay == 24

Markets == 1..NumMarkets

\* UTC offsets (hours) of the host's local time zone.
TzOffsets == {-5, 0, 5}

\* (pt_price, sy_price, tvl) triples the ingestion source delivers.
ViewFields == {<<NULL, NULL, NULL>>, <<1, NULL, 1>>, <<2, NULL, 1>>, <<1, NULL, 2>>}
HistFields == {<<NULL, NULL, NULL>>, <<1, 1, 1>>}
InsightFields == {<<NULL, NULL, NULL>>, <<1, NULL, NULL>>, <<2, NULL, NULL>>}
ChangeFields == {<<NULL, NULL, NULL>>, <<0, 1, NULL>>, <<1, NULL, NULL>>, <<2, 1, NULL>>}

\* pt_price values of the series handed to the trend classification.
TrendPrices == {NULL, 99, 100, 101}

\* Values of the hours / lookback_hours argument.
HoursArgs == {1, 24}

Limits == -1..MaxLimit

\* Values of the market_ids argument of compare_markets.
IdLists == UNION {[1..n -> Markets] : n \in 0..MaxIds}

(***************************************************************************)
(* Helpers over finite sets.                                               *)
(***************************************************************************)
RECURSIVE SumOver(_, _)
SumOver(S, f) ==
    IF S = {} THEN 0
    ELSE LET x == CHOOSE y \in S : TRUE
         IN  f[x] + SumOver(S \ {x}, f)

Min2(a, b) == IF a < b THEN a ELSE b

\* All listings of the finite set S in non-decreasing order of rank: the
\* results an ORDER BY may produce, rows of equal key in either order.
RECURSIVE Orderings(_, _)
Orderings(S, rank) ==
    IF S = {} THEN {<<>>}
    ELSE LET lowest == {x \in S : \A y \in S : rank[x] <= rank[y]}
         IN  UNION {{<<x>> \o q : q \in Orderings(S \ {x}, rank)} : x \in lowest}

(***************************************************************************)
(* The table market_snapshots.                                             *)
(***************************************************************************)
MarketSnapshot(i, m, t, pt, sy, tv) ==
    [id |-> i, market_id |-> m, timestamp |-> t,
     pt_price |-> pt, sy_price |-> sy, tvl |-> tv]

Rows(st) == {st[i] : i \in 1..Len(st)}

RowsOf(st, m) == {s \in Rows(st) : s.market_id = m}

\* SELECT market_id, MAX(timestamp) AS max_ts ... GROUP BY market_id
MaxTs(st, m) ==
    CHOOSE t \in {s.timestamp : s \in RowsOf(st, m)} :
        \A s \in RowsOf(st, m) : s.timestamp <= t

\* ... m1 INNER JOIN (...) m2 ON m1.market_id = m2.market_id
\*                             AND m1.timestamp = m2.max_ts
LatestJoin(st) == {s \in Rows(st) : s.timestamp = MaxTs(st, s.market_id)}

\* Python truth value of a nullable float: None and 0.0 are false.
Truthy(v) == v # NULL /\ v # 0

\* ORDER BY tvl DESC: larger keys first; SQLite sorts NULL below every
\* number, so the rows of NULL tvl come after all others (tvl >= 0).
TvlDesc(S) == [s \in S |-> IF s.tvl = NULL THEN 1 ELSE 0 - s.tvl]

\* LIMIT n: SQLite puts no upper bound on the rows when n is negative.
SqlLimit(q, n) ==
    IF n < 0 THEN q ELSE SubSeq(q, 1, Min2(n, Len(q)))

\* The result sequences ORDER BY tvl DESC LIMIT n may produce.
TopMarkets(st, n) ==
    {SqlLimit(q, n) : q \in Orderings(LatestJoin(st), TvlDesc(LatestJoin(st)))}

\* AnalyticsSummary with the generation time among the compared fields.
AnalyticsSummary_Stamped(st) ==
    LET latest == LatestJoin(st)
        tvls == [s \in latest |-> IF Truthy(s.tvl) THEN s.tvl ELSE 0]
        pts  == [s \in latest |-> IF Truthy(s.pt_price) THEN s.pt_price ELSE 0]
    IN  [total_markets    |-> Cardinality({s.market_id : s \in Rows(st)}),
         total_tvl        |-> SumOver(latest, tvls),
         average_pt_price |-> IF latest # {}
                              THEN <<SumOver(latest, pts), Cardinality(latest)>>
                              ELSE <<0, 1>>,
         total_snapshots  |-> Len(st) + now]

\* total_tvl, avg_pt_price and the two counts of the summary.  The
\* average is kept as the exact fraction <<numerator, denominator>>.
AnalyticsSummary(st) ==
    LET latest == LatestJoin(st)
        tvls == [s \in latest |-> IF Truthy(s.tvl) THEN s.tvl ELSE 0]
        pts  == [s \in latest |-> IF Truthy(s.pt_price) THEN s.pt_price ELSE 0]
    IN  [total_markets    |-> Cardinality({s.market_id : s \in Rows(st)}),
         total_tvl        |-> SumOver(latest, tvls),
         average_pt_price |-> IF latest # {}
                              THEN <<SumOver(latest, pts), Cardinality(latest)>>
                              ELSE <<0, 1>>,
         total_snapshots  |-> Len(st)]

(***************************************************************************)
(* Timestamps as the database and the two surfaces write them.             *)
(***************************************************************************)
DayOf(t) == t \div HoursPerDay

HourOf(t) == t % HoursPerDay

\* Code points of the separator between the date and the time of day.
SpaceChar == 32
TChar == 84

\* SQLAlchemy's SQLite DateTime storage format "YYYY-MM-DD HH:MM:SS.ffffff":
\* the text of a stored timestamp and of a bound datetime parameter.
StoredText(t) == <<DayOf(t), SpaceChar, HourOf(t)>>

\* datetime.isoformat(): "YYYY-MM-DDTHH:MM:SS.ffffff".
IsoFormat(t) == <<DayOf(t), TChar, HourOf(t)>>

\* SQLite's comparison of two TEXT values, field by field from the left.
TextGeq(a, b) ==
    \/ a[1] > b[1]
    \/ a[1] = b[1] /\ a[2] > b[2]
    \/ a[1] = b[1] /\ a[2] = b[2] /\ a[3] >= b[3]

\* datetime.now(): the host's local wall clock.
LocalNow == now + tz

\* datetime.utcnow()
UtcNow == now

\* ORDER BY timestamp ASC / DESC
TsAsc(S) == [s \in S |-> s.timestamp]

TsDesc(S) == [s \in S |-> 0 - s.timestamp]

\* WHERE market_id = :m AND timestamp >= :cutoff ORDER BY timestamp ASC,
\* the cutoff given as the text the caller binds.
SelectSince(st, m, cutoffText) ==
    LET sel == {s \in RowsOf(st, m) : TextGeq(StoredText(s.timestamp), cutoffText)}
    IN  Orderings(sel, TsAsc(sel))

\* One entry of the HTTP history payload.
HttpHistoryEntry(s) ==
    [timestamp |-> IsoFormat(s.timestamp), pt_price |-> s.pt_price,
     sy_price |-> s.sy_price, tvl |-> s.tvl]

\* One entry of the MCP history payload: dict(row).
McpHistoryEntry(s) ==
    [timestamp |-> StoredText(s.timestamp), pt_price |-> s.pt_price,
     sy_price |-> s.sy_price, tvl |-> s.tvl]

(***************************************************************************)
(* Initial state and the writers.                                          *)
(***************************************************************************)
Idle == [op |-> "none"]

Init ==
    /\ store = <<>>
    /\ now = 0
    /\ tz \in TzOffsets
    /\ resp = Idle

\* The wall clock moves on.
Tick ==
    /\ now + TickStep <= MaxNow
    /\ now' = now + TickStep
    /\ resp' = Idle
    /\ UNCHANGED <<store, tz>>

\* save_snapshot that overwrites the market's newest row instead of adding one.
\* The wall clock moves on between two calls of one client, which still
\* holds the answer to its earlier call.
TickBetweenCalls ==
    /\ now + TickStep <= MaxNow
    /\ now' = now + TickStep
    /\ resp' = IF resp.op \in {"none", "earlier"} THEN resp
               ELSE [op |-> "earlier", call |-> resp]
    /\ UNCHANGED <<store, tz>>

save_snapshot_Upsert(m, pt, sy, tv) ==
    /\ Len(store) < MaxSnapshots
    /\ store' = IF \E i \in 1..Len(store) : store[i].market_id = m
                THEN LET k == CHOOSE i \in 1..Len(store) :
                                 /\ store[i].market_id = m
                                 /\ \A j \in 1..Len(store) :
                                       store[j].market_id = m => j <= i
                     IN  [store EXCEPT ![k] =
                             MarketSnapshot(store[k].id, m, now, pt, sy, tv)]
                ELSE Append(store, MarketSnapshot(Len(store) + 1, m, now, pt, sy, tv))
    /\ resp' = Idle
    /\ UNCHANGED <<now, tz>>

save_snapshot(m, pt, sy, tv) ==
    /\ Len(store) < MaxSnapshots
    /\ store' = Append(store, MarketSnapshot(Len(store) + 1, m, now, pt, sy, tv))
    /\ resp' = Idle
    /\ UNCHANGED <<now, tz>>

(***************************************************************************)
(* Latest view, summary and ranking (both surfaces).                       *)
(***************************************************************************)
http_get_markets ==
    /\ resp' = [op |-> "http_get_markets", rows |-> LatestJoin(store)]
    /\ UNCHANGED <<store, now, tz>>

mcp_get_all_markets ==
    /\ resp' = [op |-> "mcp_get_all_markets", rows |-> LatestJoin(store)]
    /\ UNCHANGED <<store, now, tz>>

http_get_analytics_summary ==
    /\ resp' = [op |-> "http_get_analytics_summary",
                summary |-> AnalyticsSummary(store)]
    /\ UNCHANGED <<store, now, tz>>

mcp_get_analytics_summary ==
    /\ resp' = [op |-> "mcp_get_analytics_summary",
                summary |-> AnalyticsSummary(store)]
    /\ UNCHANGED <<store, now, tz>>

http_get_top_markets(limit) ==
    /\ \E r \in TopMarkets(store, limit) :
          resp' = [op |-> "http_get_top_markets", limit |-> limit, rows |-> r]
    /\ UNCHANGED <<store, now, tz>>

mcp_get_top_markets(limit) ==
    /\ \E r \in TopMarkets(store, limit) :
          resp' = [op |-> "mcp_get_top_markets", limit |-> limit, rows |-> r]
    /\ UNCHANGED <<store, now, tz>>

(***************************************************************************)
(* History and single-snapshot lookups.                                    *)
(***************************************************************************)
\* http_get_market_history without the test for an empty selection.
http_get_market_history_NoCheck(m, hours) ==
    /\ \E q \in SelectSince(store, m, StoredText(LocalNow - hours)) :
          resp' = [op |-> "http_get_market_history", market_id |-> m,
                   hours |-> hours, status |-> "ok",
                   history |-> [i \in 1..Len(q) |-> HttpHistoryEntry(q[i])]]
    /\ UNCHANGED <<store, now, tz>>

http_get_market_history(m, hours) ==
    /\ \E q \in SelectSince(store, m, StoredText(LocalNow - hours)) :
          resp' = IF q = <<>>
                  THEN [op |-> "http_get_market_history", market_id |-> m,
                        hours |-> hours, status |-> "404", history |-> <<>>]
                  ELSE [op |-> "http_get_market_history", market_id |-> m,
                        hours |-> hours, status |-> "ok",
                        history |-> [i \in 1..Len(q) |-> HttpHistoryEntry(q[i])]]
    /\ UNCHANGED <<store, now, tz>>

mcp_get_market_history(m, hours) ==
    /\ \E q \in SelectSince(store, m, IsoFormat(LocalNow - hours)) :
          resp' = IF q = <<>>
                  THEN [op |-> "mcp_get_market_history", market_id |-> m,
                        hours |-> hours, status |-> "no_history", history |-> <<>>]
                  ELSE [op |-> "mcp_get_market_history", market_id |-> m,
                        hours |-> hours, status |-> "ok",
                        history |-> [i \in 1..Len(q) |-> McpHistoryEntry(q[i])]]
    /\ UNCHANGED <<store, now, tz>>

\* ORDER BY timestamp DESC, first row.
LatestOf(st, m) ==
    {q[1] : q \in {o \in Orderings(RowsOf(st, m), TsDesc(RowsOf(st, m))) : o # <<>>}}

http_get_market_latest(m) ==
    /\ \/ /\ LatestOf(store, m) = {}
          /\ resp' = [op |-> "http_get_market_latest", market_id |-> m,
                      status |-> "404"]
       \/ \E s \in LatestOf(store, m) :
             resp' = [op |-> "http_get_market_latest", market_id |-> m,
                      status |-> "ok", snapshot |-> s]
    /\ UNCHANGED <<store, now, tz>>

mcp_get_market_details(m) ==
    /\ \/ /\ LatestOf(store, m) = {}
          /\ resp' = [op |-> "mcp_get_market_details", market_id |-> m,
                      status |-> "not_found"]
       \/ \E s \in LatestOf(store, m) :
             resp' = [op |-> "mcp_get_market_details", market_id |-> m,
                      status |-> "ok", snapshot |-> s]
    /\ UNCHANGED <<store, now, tz>>

(***************************************************************************)
(* Comparison of several markets.                                          *)
(***************************************************************************)
\* The latest-snapshot join with the inner query restricted by
\* WHERE market_id IN (?, ..., ?); with no placeholder the list is "IN ()",
\* which SQLite accepts and which matches no row.
CompareJoin(st, ids) ==
    {s \in LatestJoin(st) : \E i \in 1..Len(ids) : s.market_id = ids[i]}

\* compare_markets builds and runs the query whatever the list holds.
mcp_compare_markets(ids) ==
    /\ resp' = [op |-> "mcp_compare_markets", market_ids |-> ids,
                status |-> "ok", queried |-> TRUE,
                rows |-> CompareJoin(store, ids)]
    /\ UNCHANGED <<store, now, tz>>

(***************************************************************************)
(* Trend insight.                                                          *)
(***************************************************************************)
RECURSIVE SumSeq(_)
SumSeq(q) == IF q = <<>> THEN 0 ELSE q[1] + SumSeq(Tail(q))

\* df["pt_price"].notnull().sum()
NotNullCount(y) == Cardinality({i \in 1..Len(y) : y[i] # NULL})

\* fillna(method='ffill'): a null takes the latest value before it; a null
\* with no value before it stays null (NaN).
FFill(y) ==
    [i \in 1..Len(y) |->
        IF \E k \in 1..i : y[k] # NULL
        THEN y[CHOOSE k \in 1..i : y[k] # NULL /\ \A l \in (k+1)..i : y[l] = NULL]
        ELSE NULL]

\* np.polyfit(x, y, 1)[0] over x = 0..n-1, as the exact fraction of the
\* normal equations: (n*Sxy - Sx*Sy) / (n*Sxx - Sx*Sx).
PolyfitSlope(y) ==
    LET n   == Len(y)
        Sx  == SumSeq([i \in 1..n |-> i - 1])
        Sxx == SumSeq([i \in 1..n |-> (i - 1) * (i - 1)])
        Sy  == SumSeq(y)
        Sxy == SumSeq([i \in 1..n |-> (i - 1) * y[i]])
    IN  <<n * Sxy - Sx * Sy, n * Sxx - Sx * Sx>>

\* (coeff / np.mean(y)) * 100 as an exact fraction with denominator >= 0;
\* the denominator is 0 when the mean is 0 (the float result is then NaN
\* for a zero slope).
SlopePct(y) ==
    LET c == PolyfitSlope(y)
    IN  <<100 * Len(y) * c[1], c[2] * SumSeq(y)>>

\* Classify with the two thresholds included in the trending classes.
Classify_Inclusive(y) ==
    LET p == SlopePct(y)
    IN  IF p[2] = 0 THEN "stable"
        ELSE IF 2 * p[1] >= p[2] THEN "up"
        ELSE IF 2 * p[1] <= 0 - p[2] THEN "down"
        ELSE "stable"

\* slope_pct > 0.5 / slope_pct < -0.5 / else
Classify(y) ==
    LET p == SlopePct(y)
    IN  IF p[2] = 0 THEN "stable"
        ELSE IF 2 * p[1] > p[2] THEN "up"
        ELSE IF 2 * p[1] < 0 - p[2] THEN "down"
        ELSE "stable"

\* TrendInsight with the price count tested before the row count.
TrendInsight_PricesFirst(prices) ==
    IF NotNullCount(prices) >= 2
    THEN LET y == FFill(prices)
         IN  IF \E i \in 1..Len(y) : y[i] = NULL
             THEN {"error", "stable"}
             ELSE {Classify(y)}
    ELSE IF Len(prices) < 3 THEN {"insufficient_history"}
    ELSE {"insufficient_price"}

\* The outcomes of simple_trend_insight on the pt_price column of the
\* selected rows.  A series that still holds a NaN makes np.polyfit either
\* raise LinAlgError or return NaN, and NaN compares false both ways.
TrendInsight(prices) ==
    IF Len(prices) < 3 THEN {"insufficient_history"}
    ELSE IF NotNullCount(prices) >= 2
         THEN LET y == FFill(prices)
              IN  IF \E i \in 1..Len(y) : y[i] = NULL
                  THEN {"error", "stable"}
                  ELSE {Classify(y)}
         ELSE {"insufficient_price"}

simple_trend_insight(m, lookback) ==
    /\ \E q \in SelectSince(store, m, StoredText(UtcNow - lookback)) :
          \E o \in TrendInsight([i \in 1..Len(q) |-> q[i].pt_price]) :
             resp' = [op |-> "simple_trend_insight", market_id |-> m,
                      hours |-> lookback, rows |-> q, insight |-> o]
    /\ UNCHANGED <<store, now, tz>>

\* The classification applied to a given pt_price column.
trend_of_series ==
    /\ resp.op = "series"
    /\ \E o \in TrendInsight(resp.prices) :
          resp' = [op |-> "trend", prices |-> resp.prices, insight |-> o]
    /\ UNCHANGED <<store, now, tz>>

(***************************************************************************)
(* Price change.                                                           *)
(***************************************************************************)
\* round(x, 4) of the fraction num/den (den > 0), in units of 0.0001.
Round4(num, den) ==
    LET n == num * 10000
        q == n \div den
        r == n - q * den
    IN  IF 2 * r < den THEN q
        ELSE IF 2 * r > den THEN q + 1
        ELSE IF q % 2 = 0 THEN q ELSE q + 1

\* ((last - first) / first * 100) if first else 0; subtracting from None
\* raises TypeError.
PriceChange(first, last) ==
    IF Truthy(first)
    THEN IF last = NULL
         THEN [raised |-> TRUE, value |-> 0]
         ELSE [raised |-> FALSE, value |-> Round4((last - first) * 100, first)]
    ELSE [raised |-> FALSE, value |-> 0]

mcp_calculate_price_change(m, hours) ==
    /\ \E q \in SelectSince(store, m, IsoFormat(LocalNow - hours)) :
          resp' =
            IF Len(q) < 2
            THEN [op |-> "mcp_calculate_price_change", market_id |-> m,
                  hours |-> hours, rows |-> q, status |-> "insufficient"]
            ELSE LET first == q[1]
                     last  == q[Len(q)]
                     pt == PriceChange(first.pt_price, last.pt_price)
                     sy == PriceChange(first.sy_price, last.sy_price)
                 IN  IF pt.raised \/ sy.raised
                     THEN [op |-> "mcp_calculate_price_change", market_id |-> m,
                           hours |-> hours, rows |-> q, status |-> "error"]
                     ELSE [op |-> "mcp_calculate_price_change", market_id |-> m,
                           hours |-> hours, rows |-> q, status |-> "ok",
                           pt_price_change_percent |-> pt.value,
                           sy_price_change_percent |-> sy.value,
                           start_pt_price |-> first.pt_price,
                           end_pt_price |-> last.pt_price]
    /\ UNCHANGED <<store, now, tz>>

(***************************************************************************)
(* Specifications.                                                         *)
(***************************************************************************)
PollView ==
    \E m \in Markets, f \in ViewFields : save_snapshot(m, f[1], f[2], f[3])

TopView ==
    \E limit \in Limits : http_get_top_markets(limit) \/ mcp_get_top_markets(limit)

NextView ==
    \/ Tick
    \/ PollView
    \/ http_get_markets
    \/ mcp_get_all_markets
    \/ http_get_analytics_summary
    \/ mcp_get_analytics_summary
    \/ TopView

SpecView == Init /\ [][NextView]_vars

PollHistory ==
    \E m \in Markets, f \in HistFields : save_snapshot(m, f[1], f[2], f[3])

HistoryQuery ==
    \E m \in Markets, hours \in HoursArgs :
        \/ http_get_market_history(m, hours)
        \/ mcp_get_market_history(m, hours)

LatestQuery ==
    \E m \in Markets : http_get_market_latest(m) \/ mcp_get_market_details(m)

NextHistory ==
    \/ Tick
    \/ PollHistory
    \/ HistoryQuery
    \/ LatestQuery

SpecHistory == Init /\ [][NextHistory]_vars

\* ai_insights.py reads the UTC clock only; the host's zone is left at UTC.
InitInsight ==
    /\ store = <<>>
    /\ now = 0
    /\ tz = 0
    /\ resp = Idle

PollInsight ==
    \E m \in Markets, f \in InsightFields : save_snapshot(m, f[1], f[2], f[3])

InsightQuery ==
    \E m \in Markets, hours \in HoursArgs : simple_trend_insight(m, hours)

NextInsight ==
    \/ Tick
    \/ PollInsight
    \/ InsightQuery

SpecInsight == InitInsight /\ [][NextInsight]_vars

CompareQuery ==
    \E ids \in IdLists : mcp_compare_markets(ids)

NextCompare ==
    \/ Tick
    \/ PollHistory
    \/ CompareQuery

SpecCompare == Init /\ [][NextCompare]_vars

RepeatableQuery ==
    \/ \E m \in Markets, hours \in HoursArgs : http_get_market_history(m, hours)
    \/ \E m \in Markets : simple_trend_insight(m, HoursPerDay)
    \/ \E limit \in 1..MaxLimit : mcp_get_top_markets(limit)
    \/ mcp_get_analytics_summary

NextRepeat ==
    \/ TickBetweenCalls
    \/ PollHistory
    \/ RepeatableQuery

SpecRepeat == InitInsight /\ [][NextRepeat]_vars

PollChange ==
    \E m \in Markets, f \in ChangeFields : save_snapshot(m, f[1], f[2], f[3])

ChangeQuery ==
    \E m \in Markets, hours \in HoursArgs : mcp_calculate_price_change(m, hours)

NextChange ==
    \/ Tick
    \/ PollChange
    \/ ChangeQuery

SpecChange == Init /\ [][NextChange]_vars

SeriesInputs == UNION {[1..n -> TrendPrices] : n \in 2..MaxSeries}

InitTrend ==
    /\ store = <<>>
    /\ now = 0
    /\ tz = 0
    /\ resp \in {[op |-> "series", prices |-> y] : y \in SeriesInputs}

NextTrend == trend_of_series

SpecTrend == InitTrend /\ [][NextTrend]_vars

(***************************************************************************)
(* Reference notions the properties are stated with.                       *)
(***************************************************************************)
KnownMarkets(st) == {s.market_id : s \in Rows(st)}

\* The snapshot of market m with the maximum timestamp and, among those,
\* the largest id.
TrueLatest(st, m) ==
    CHOOSE s \in RowsOf(st, m) :
        \A r \in RowsOf(st, m) :
            \/ r.timestamp < s.timestamp
            \/ r.timestamp = s.timestamp /\ r.id <= s.id

TrueLatestSet(st) == {TrueLatest(st, m) : m \in KnownMarkets(st)}

Present(v) == IF v = NULL THEN 0 ELSE v

IsListing == resp.op \in {"http_get_markets", "mcp_get_all_markets"}

IsSummary == resp.op \in {"http_get_analytics_summary", "mcp_get_analytics_summary"}

IsTop == resp.op \in {"http_get_top_markets", "mcp_get_top_markets"}

IsHistory == resp.op \in {"http_get_market_history", "mcp_get_market_history"}

IsLookup == resp.op \in {"http_get_market_latest", "mcp_get_market_details"}

(***************************************************************************)
(* C1.  The latest-view listing holds exactly one entry per market that    *)
(* has a snapshot, and that entry is the market's snapshot of maximum      *)
(* timestamp, the one of largest id among several of that timestamp.       *)
(***************************************************************************)
C1_LatestViewExact ==
    IsListing => resp.rows = TrueLatestSet(store)

(***************************************************************************)
(* C4.  The summary's total_tvl is the sum of tvl over the one latest      *)
(* snapshot (max timestamp, max id) of each market, an absent tvl adding   *)
(* nothing.                                                                *)
(***************************************************************************)
C4_TotalTvlOverLatest ==
    IsSummary =>
        resp.summary.total_tvl =
            SumOver(TrueLatestSet(store),
                    [s \in TrueLatestSet(store) |-> Present(s.tvl)])

(***************************************************************************)
(* C5.  The summary's average_pt_price is the sum of the present pt_price  *)
(* of the latest snapshots divided by the number of distinct markets       *)
(* (total_markets); on an empty store it is 0 and total_tvl is 0.          *)
(***************************************************************************)
C5_AveragePtPrice ==
    IsSummary =>
        LET latest == TrueLatestSet(store)
            sum == SumOver(latest, [s \in latest |-> Present(s.pt_price)])
            avg == resp.summary.average_pt_price
        IN  IF store = <<>>
            THEN avg[1] = 0 /\ resp.summary.total_tvl = 0
            ELSE /\ resp.summary.total_markets = Cardinality(latest)
                 /\ avg[1] * resp.summary.total_markets = sum * avg[2]

(***************************************************************************)
(* C6.  The ranking lists latest snapshots by tvl descending, markets of   *)
(* equal latest tvl in ascending market_id order, and every market whose   *)
(* latest tvl is absent after every market with a numeric latest tvl.      *)
(***************************************************************************)
C6_RankingOrder ==
    IsTop =>
        \A i, j \in 1..Len(resp.rows) :
            i < j =>
                LET a == TrueLatest(store, resp.rows[i].market_id)
                    b == TrueLatest(store, resp.rows[j].market_id)
                IN  /\ a.tvl = NULL => b.tvl = NULL
                    /\ a.tvl # NULL /\ b.tvl # NULL => a.tvl >= b.tvl
                    /\ a.tvl = b.tvl /\ a.tvl # NULL => a.market_id <= b.market_id

(***************************************************************************)
(* C7.  The ranking returns min(limit, number of markets) entries when     *)
(* limit > 0 and no entry when limit <= 0.                                 *)
(***************************************************************************)
C7_LimitBound ==
    IsTop =>
        Len(resp.rows) =
            IF resp.limit > 0
            THEN Min2(resp.limit, Cardinality(KnownMarkets(store)))
            ELSE 0

(***************************************************************************)
(* C2.  A history query at instant now with a window of hours >= now - t   *)
(* returns every snapshot of the market appended at instant t, with the    *)
(* pt_price, sy_price and tvl it was appended with.                        *)
(***************************************************************************)
C2_RoundTrip ==
    /\ IsHistory =>
          \A s \in RowsOf(store, resp.market_id) :
              resp.hours >= now - s.timestamp =>
                  \E i \in 1..Len(resp.history) :
                      /\ resp.history[i].pt_price = s.pt_price
                      /\ resp.history[i].sy_price = s.sy_price
                      /\ resp.history[i].tvl = s.tvl
                      /\ resp.history[i].timestamp[1] = DayOf(s.timestamp)
                      /\ resp.history[i].timestamp[3] = HourOf(s.timestamp)
    /\ resp.op = "simple_trend_insight" =>
          \A s \in RowsOf(store, resp.market_id) :
              resp.hours >= now - s.timestamp =>
                  \E i \in 1..Len(resp.rows) : resp.rows[i] = s

(***************************************************************************)
(* C3 as stated.  A history query for a market that is unknown or has no   *)
(* snapshot in the window succeeds with an empty sequence; a lookup of     *)
(* the latest snapshot reports not-found exactly when the market has no    *)
(* snapshot at all.                                                        *)
(***************************************************************************)
InLocalWindow(m, hours) ==
    {s \in RowsOf(store, m) : s.timestamp >= now + tz - hours}

InUtcWindow(m, hours) ==
    {s \in RowsOf(store, m) : s.timestamp >= now - hours}

C8_TrendGating ==
    resp.op = "simple_trend_insight" =>
        LET w == InUtcWindow(resp.market_id, resp.hours)
            n == Cardinality(w)
            k == Cardinality({s \in w : s.pt_price # NULL})
        IN  /\ n < 3 => resp.insight = "insufficient_history"
            /\ n >= 3 /\ k < 2 => resp.insight = "insufficient_price"
            /\ resp.insight \in {"up", "down", "stable"} => n >= 3 /\ k >= 2

\* Three snapshots in the window, one price among them.
C8_Witness ==
    /\ resp.op = "simple_trend_insight"
    /\ Cardinality(InUtcWindow(resp.market_id, resp.hours)) >= 3
    /\ Cardinality({s \in InUtcWindow(resp.market_id, resp.hours) :
                        s.pt_price # NULL}) = 1
    /\ resp.insight = "insufficient_price"

(***************************************************************************)
(* The normalised slope of a series without gaps, from the centred form    *)
(* of the least-squares line: slope = 2 * sum(w_i * y_i) / sum(w_i^2) with *)
(* w_i = 2i - (n - 1) over the 0-based index i.  HalfPctCmp(y) is the sign *)
(* of slope / mean * 100 - 0.5, MinusHalfPctCmp(y) that of                 *)
(* slope / mean * 100 + 0.5.                                               *)
(***************************************************************************)
CentredNum(y) == SumSeq([i \in 1..Len(y) |-> (2 * (i - 1) - (Len(y) - 1)) * y[i]])

CentredDen(y) ==
    SumSeq([i \in 1..Len(y) |->
                (2 * (i - 1) - (Len(y) - 1)) * (2 * (i - 1) - (Len(y) - 1))])

Sign(x) == IF x > 0 THEN 1 ELSE IF x < 0 THEN -1 ELSE 0

HalfPctCmp(y) == Sign(400 * Len(y) * CentredNum(y) - CentredDen(y) * SumSeq(y))

MinusHalfPctCmp(y) == Sign(400 * Len(y) * CentredNum(y) + CentredDen(y) * SumSeq(y))

\* The series is classified: at least 3 points, none of them null.
Classified ==
    /\ resp.op = "trend"
    /\ Len(resp.prices) >= 3
    /\ \A i \in 1..Len(resp.prices) : resp.prices[i] # NULL

(***************************************************************************)
(* C9 as stated.  A series whose normalised slope is exactly 0.5% is       *)
(* classified trending up, exactly -0.5% trending down, and only values    *)
(* strictly between are stable.                                            *)
(***************************************************************************)
C9_BoundaryInclusive ==
    Classified =>
        /\ HalfPctCmp(resp.prices) >= 0 <=> resp.insight = "up"
        /\ MinusHalfPctCmp(resp.prices) <= 0 <=> resp.insight = "down"

(***************************************************************************)
(* C9 amended.  A series is classified trending up only when its           *)
(* normalised slope is strictly above 0.5% and trending down only when it  *)
(* is strictly below -0.5%; exactly 0.5% and exactly -0.5% are stable.     *)
(***************************************************************************)
C9_BoundaryStrict ==
    Classified =>
        /\ HalfPctCmp(resp.prices) > 0 <=> resp.insight = "up"
        /\ MinusHalfPctCmp(resp.prices) < 0 <=> resp.insight = "down"
        /\ HalfPctCmp(resp.prices) = 0 \/ MinusHalfPctCmp(resp.prices) = 0 =>
              resp.insight = "stable"

\* A series of slope exactly 0.5% was classified.
C9_Witness ==
    /\ Classified
    /\ HalfPctCmp(resp.prices) = 0
    /\ resp.insight = "stable"

(***************************************************************************)
(* C10.  With at least 2 snapshots selected, calculate_price_change        *)
(* reports for pt_price and for sy_price the change                        *)
(* (last - first) / first * 100 (to 4 decimals) when the first value is    *)
(* present and non-zero and exactly 0, without a fault, when it is null or *)
(* zero; with fewer than 2 snapshots it reports "insufficient data".       *)
(* Stated for the windows whose first and last snapshot in time order are  *)
(* determined, that is, differ in timestamp.                               *)
(***************************************************************************)
\* v (in units of 0.0001) is (last - first) / first * 100 to 4 decimals.
IsPctChange(v, first, last) ==
    LET d == v * first - (last - first) * 1000000
    IN  2 * d <= first /\ 2 * d >= 0 - first

ChangeAsSpecified(v, first, last) ==
    IF first = NULL \/ first = 0 THEN v = 0
    ELSE last # NULL /\ IsPctChange(v, first, last)

C10_PriceChangePolicy ==
    resp.op = "mcp_calculate_price_change" =>
        IF Len(resp.rows) < 2
        THEN resp.status = "insufficient"
        ELSE LET first == resp.rows[1]
                 last  == resp.rows[Len(resp.rows)]
             IN  first.timestamp < last.timestamp =>
                 /\ resp.status = "ok"
                 /\ \A i \in 1..Len(resp.rows) :
                       /\ first.timestamp <= resp.rows[i].timestamp
                       /\ resp.rows[i].timestamp <= last.timestamp
                 /\ ChangeAsSpecified(resp.pt_price_change_percent,
                                      first.pt_price, last.pt_price)
                 /\ ChangeAsSpecified(resp.sy_price_change_percent,
                                      first.sy_price, last.sy_price)

(***************************************************************************)
(* C11.  The store is append-only: every step, of the poller or of a       *)
(* query, leaves each stored snapshot in place with all its fields         *)
(* unchanged, never shortens the store, and keeps the ids distinct and     *)
(* strictly increasing in append order.                                    *)
(***************************************************************************)
C11_AppendOnly ==
    [][/\ Len(store') >= Len(store)
       /\ \A i \in 1..Len(store) : store'[i] = store[i]
       /\ \A i, j \in 1..Len(store') : i < j => store'[i].id < store'[j].id]_vars

\* A query was answered on a store that two poll writes of one market built.
C11_Witness ==
    /\ Len(store) >= 2
    /\ store[1].market_id = store[2].market_id
    /\ resp.op = "simple_trend_insight"

(***************************************************************************)
(* C12.  compare_markets with an empty market_ids list is rejected as      *)
(* invalid input before the store is read; with a non-empty list it        *)
(* returns one entry, the latest snapshot, for each requested market that  *)
(* has snapshots and omits the requested markets that have none.           *)
(***************************************************************************)
C12_CompareMarkets ==
    resp.op = "mcp_compare_markets" =>
        IF resp.market_ids = <<>>
        THEN resp.status = "invalid_input" /\ ~resp.queried
        ELSE /\ resp.status = "ok"
             /\ resp.rows =
                   {TrueLatest(store, m) :
                       m \in {resp.market_ids[i] : i \in 1..Len(resp.market_ids)}
                             \cap KnownMarkets(store)}

(***************************************************************************)
(* Two calls in a row: the earlier answer, the call repeated with the same *)
(* arguments on the same store, and the cases in which the ORDER BY of the *)
(* query fixes the order of the rows (no two rows of equal key) and the    *)
(* line fit is given defined values.                                       *)
(***************************************************************************)
RepeatableOps ==
    {"http_get_market_history", "simple_trend_insight",
     "mcp_get_top_markets", "mcp_get_analytics_summary"}

PrevCall == IF resp.op = "earlier" THEN resp.call ELSE resp

ClockMoved == resp.op = "earlier"

SameArgs(a, b) ==
    /\ a.op = b.op
    /\ a.op \in {"http_get_market_history", "simple_trend_insight"} =>
          a.market_id = b.market_id /\ a.hours = b.hours
    /\ a.op = "mcp_get_top_markets" => a.limit = b.limit

OrderDetermined(r) ==
    /\ r.op \in {"http_get_market_history", "simple_trend_insight"} =>
          \A a, b \in RowsOf(store, r.market_id) : a.timestamp = b.timestamp => a = b
    /\ r.op = "simple_trend_insight" =>
          Cardinality(TrendInsight([i \in 1..Len(r.rows) |-> r.rows[i].pt_price])) = 1
    /\ r.op = "mcp_get_top_markets" =>
          \A a, b \in LatestJoin(store) : a.tvl = b.tvl => a = b

C14_NeverErrorExecuting ==
    /\ resp.op = "mcp_calculate_price_change"
    /\ Len(resp.rows) >= 2
    /\ resp.rows[1].timestamp < resp.rows[Len(resp.rows)].timestamp
    => resp.status # "error"

(***************************************************************************)
(* C15.  Whenever the series of simple_trend_insight has at least 3        *)
(* snapshots and at least 2 non-null pt_price values, the forward-filled   *)
(* series handed to the line fit holds no null at any position, so the     *)
(* fit neither fails nor works on an undefined value.                      *)
(***************************************************************************)
C15_FilledSeriesDefined ==
    /\ resp.op = "trend"
    /\ Len(resp.prices) >= 3
    /\ NotNullCount(resp.prices) >= 2
    => /\ \A i \in 1..Len(resp.prices) : FFill(resp.prices)[i] # NULL
       /\ resp.insight = Classify(FFill(resp.prices))

(***************************************************************************)
(* C16.  For one store, market, hours value and instant the cutoff of the  *)
(* MCP surface (ISO text, compared as text) and the cutoff of the HTTP     *)
(* surface (compared as a datetime) select the same snapshots, and these   *)
(* are the snapshots whose UTC timestamp lies in [now - hours, now]; the   *)
(* answer has one entry for each of them.                                  *)
(***************************************************************************)
SelectedBy(m, cutoffText) ==
    {s \in RowsOf(store, m) : TextGeq(StoredText(s.timestamp), cutoffText)}

C16_SurfacesSelectUtcWindow ==
    IsHistory =>
        LET mcp  == SelectedBy(resp.market_id, IsoFormat(LocalNow - resp.hours))
            http == SelectedBy(resp.market_id, StoredText(LocalNow - resp.hours))
            utc  == InUtcWindow(resp.market_id, resp.hours)
        IN  /\ mcp = http
            /\ http = utc
            /\ Len(resp.history) = Cardinality(utc)

====
